---------------------------- MODULE Spec2Model ----------------------------
(***************************************************************************)
(* A model of STDev_Chart.py: the chunked fetch of a season of pitch       *)
(* records (fetch_season_data), the group-by aggregation of the release    *)
(* coordinates, the pitcher dropdown and the 3D figure                     *)
(* (plot_release_points).                                                  *)
(*                                                                         *)
(* Representation.                                                         *)
(*  - A date string "YYYY-MM-DD" is the triple <<y, m, d>>; a datetime is  *)
(*    its proleptic Gregorian ordinal, as in CPython's datetime.           *)
(*  - A DataFrame is the sequence of its rows; a cell is <<>> when it is   *)
(*    missing (NaN/None) and <<v>> when it holds v.                        *)
(*  - Numbers computed by mean/std are exact: a rational is a reduced      *)
(*    pair <<n, d>> with d > 0, and a coordinate is the record             *)
(*    [q, s, r] standing for q + s * sqrt(r), s in {-1, 0, 1}.  Floating   *)
(*    point rounding is not modelled.                                      *)
(***************************************************************************)
EXTENDS Integers, Sequences, FiniteSets, TLC

VARIABLES
    pc,              \* position of the script / of fetch_season_data
    args,            \* the arguments of the fetch_season_data call
    current_start,   \* line 17: datetime (ordinal) of the next chunk's start
    end_date,        \* line 18: end_date after it is rebound to a datetime
    all_data,        \* line 16: the list of non-empty chunks fetched so far
    calls,           \* history: every pb.statcast call and what it gave
    ui,              \* the Streamlit elements emitted so far, in order
    data,            \* line 35 / 102: the DataFrame the fetch returned
    pitch_grouped,   \* lines 112-123
    player_grouped,  \* lines 126-138
    pitcher_name     \* line 156: what st.selectbox returned

vars == <<pc, args, current_start, end_date, all_data, calls, ui, data,
          pitch_grouped, player_grouped, pitcher_name>>

---------------------------------------------------------------------------
(* Bounds of the model *)

\* largest end_date - start_date, in days, of a modelled call
MaxSpan == 5
\* largest small chunk_size_days of a modelled call
MaxChunk == 3
\* the provider hands out at most this many rows over one fetch: when the
\* function is called alone, and when the script runs
MaxCallRows == 2
MaxRows == 3
\* days of the season the script fetches (184 in the script, line 102)
SeasonDays == 10

\* the history of calls is kept for at most this many calls
MaxCalls == MaxSpan + 2

---------------------------------------------------------------------------
(* datetime: proleptic Gregorian ordinals (CPython datetime) *)

\* datetime.max.toordinal(): 9999-12-31
MAXORDINAL == 3652059

is_leap(y) == y % 4 = 0 /\ (y % 100 # 0 \/ y % 400 = 0)

DAYS_BEFORE_MONTH == <<0, 31, 59, 90, 120, 151, 181, 212, 243, 273, 304, 334>>

days_before_year(y) ==
    LET y1 == y - 1 IN y1 * 365 + (y1 \div 4) - (y1 \div 100) + (y1 \div 400)

days_before_month(y, m) ==
    DAYS_BEFORE_MONTH[m] + (IF m > 2 /\ is_leap(y) THEN 1 ELSE 0)

\* datetime.strptime(s, "%Y-%m-%d") of a valid date string, as an ordinal
strptime(s) == days_before_year(s[1]) + days_before_month(s[1], s[2]) + s[3]

\* dt.strftime("%Y-%m-%d") / dt.date(): the ordinal back to <<y, m, d>>
strftime(n) ==
    LET n0   == n - 1
        n400 == n0 \div 146097
        r400 == n0 % 146097
        n100 == r400 \div 36524
        r100 == r400 % 36524
        n4   == r100 \div 1461
        r4   == r100 % 1461
        n1   == r4 \div 365
        r1   == r4 % 365
        year == n400 * 400 + 1 + n100 * 100 + n4 * 4 + n1
    IN  IF n1 = 4 \/ n100 = 4 THEN <<year - 1, 12, 31>>
        ELSE LET leap  == n1 = 3 /\ (n4 # 24 \/ n100 = 3)
                 adj(m) == IF m > 2 /\ leap THEN 1 ELSE 0
                 m0    == (r1 + 50) \div 32
                 p0    == DAYS_BEFORE_MONTH[m0] + adj(m0)
                 month == IF p0 > r1 THEN m0 - 1 ELSE m0
                 prec  == DAYS_BEFORE_MONTH[month] + adj(month)
             IN  <<year, month, r1 - prec + 1>>

\* datetime + timedelta(days): "overflow" stands for OverflowError
\* ("date value out of range")
DateOk(n) == 1 <= n /\ n <= MAXORDINAL

Min(a, b) == IF a <= b THEN a ELSE b

---------------------------------------------------------------------------
(* Cells and rows *)

NaN == <<>>
Val(v) == <<v>>
isna(c) == c = <<>>

Row(date, player, pitch, x, y, z) ==
    [game_date |-> date, player_name |-> player, pitch_name |-> pitch,
     release_pos_x |-> x, release_pos_y |-> y, release_pos_z |-> z]

Kind(player, pitch, x, y, z) ==
    [player_name |-> player, pitch_name |-> pitch,
     release_pos_x |-> x, release_pos_y |-> y, release_pos_z |-> z]

\* the rows the provider draws from when the script runs
SeasonKinds ==
    { Kind(Val("A"), Val("Slider"), Val(1), Val(54), Val(6)),
      Kind(Val("A"), Val("Slider"), Val(-1), Val(55), Val(5)),
      Kind(Val("A"), Val("Eephus"), Val(-1), Val(56), Val(7)),
      Kind(Val("B"), Val("Slider"), Val(2), Val(55), Val(6)),
      Kind(Val("A"), NaN, Val(1), Val(54), Val(6)),
      Kind(NaN, Val("Slider"), Val(1), Val(54), Val(6)),
      Kind(Val("A"), Val("Slider"), NaN, Val(54), Val(6)),
      Kind(Val("B"), Val("Curveball"), Val(1), NaN, Val(5)),
      Kind(Val("B"), Val("Slider"), Val(2), Val(55), NaN) }

\* the one row the provider draws from when the function is called alone
CallKinds == { Kind(Val("A"), Val("Slider"), Val(1), Val(54), Val(6)) }

Front(s) == SubSeq(s, 1, Len(s) - 1)

SeqsUpTo(S, n) == UNION { [1..k -> S] : k \in 0..n }

\* pb.statcast(start_dt, end_dt): the tables it can return (an empty one
\* among them), with at most `room` rows
statcast(kinds, start_dt, end_dt, room) ==
    { [i \in DOMAIN t |->
          Row(start_dt, t[i].player_name, t[i].pitch_name,
              t[i].release_pos_x, t[i].release_pos_y, t[i].release_pos_z)]
      : t \in SeqsUpTo(kinds, room) }

RECURSIVE concat(_)
\* pd.concat(frames, ignore_index=True)
concat(frames) ==
    IF frames = <<>> THEN <<>> ELSE Head(frames) \o concat(Tail(frames))

RECURSIVE TotalRows(_)
TotalRows(cs) ==
    IF cs = <<>> THEN 0 ELSE Len(Head(cs).chunk) + TotalRows(Tail(cs))

---------------------------------------------------------------------------
(* fetch_season_data *)

None == [none |-> TRUE]

Element(kind, arg) == [kind |-> kind, arg |-> arg]

\* lines 16-19
FetchEnter ==
    /\ pc = "call"
    /\ all_data' = <<>>
    /\ current_start' = strptime(args.start_date)
    /\ end_date' = strptime(args.end_date)
    /\ pc' = "loop"
    /\ UNCHANGED <<args, calls, ui, data, pitch_grouped, player_grouped,
                   pitcher_name>>

\* line 22: current_start + chunk_size - timedelta(days=1), left to right
ChunkEndOverflows ==
    \/ ~DateOk(current_start + args.chunk_size_days)
    \/ ~DateOk(current_start + args.chunk_size_days - 1)

\* line 22
current_end ==
    Min(current_start + args.chunk_size_days - 1, end_date)

\* lines 27-28: what all_data is after a chunk came back
AppendChunk(chunk) == IF chunk # <<>> THEN Append(all_data, chunk) ELSE all_data

\* The logs of the model (calls, ui) record the first MaxCalls iterations of
\* a call; the loop itself runs on past them, with the provider out of rows.
\* A call with chunk_size_days >= 1 makes fewer than MaxCalls iterations.
Logging == Len(calls) < MaxCalls
Log(log, entries) == IF Logging THEN log \o entries ELSE log
Room(rows) == IF Logging THEN rows - TotalRows(calls) ELSE 0

\* OnException without the try/except of lines 25-30: the exception of the
\* provider call ends fetch_season_data
OnExceptionPropagates(start_dt, end_dt) ==
    /\ ui' = Log(ui, <<Element("write", <<"Fetching", start_dt, end_dt>>)>>)
    /\ all_data' = all_data
    /\ calls' = Log(calls, <<[start_dt |-> start_dt, end_dt |-> end_dt,
                             raised |-> TRUE, chunk |-> <<>>]>>)
    /\ current_start' = current_start
    /\ pc' = "raised"

\* lines 29-30: the provider call raised
OnException(start_dt, end_dt) ==
    /\ ui' = Log(ui, <<Element("write", <<"Fetching", start_dt, end_dt>>),
                       Element("warning", <<"Failed", start_dt, end_dt>>)>>)
    /\ all_data' = all_data
    /\ calls' = Log(calls, <<[start_dt |-> start_dt, end_dt |-> end_dt,
                             raised |-> TRUE, chunk |-> <<>>]>>)
    /\ current_start' = current_start + args.chunk_size_days
    /\ pc' = "loop"

\* line 21: the loop condition holds, the body is entered
FetchTest ==
    /\ pc = "loop"
    /\ current_start <= end_date
    /\ pc' = "chunk"
    /\ UNCHANGED <<args, current_start, end_date, all_data, calls, ui, data,
                   pitch_grouped, player_grouped, pitcher_name>>

\* lines 22-32, the body of the loop when the provider call returns
FetchChunk(kinds, rows) ==
    /\ pc = "chunk"
    /\ ~ChunkEndOverflows
    /\ LET start_dt == strftime(current_start)
           end_dt   == strftime(current_end)
       IN  \E chunk \in statcast(kinds, start_dt, end_dt, Room(rows)) :
             /\ ui' = Log(ui, <<Element("write",
                                        <<"Fetching", start_dt, end_dt>>)>>)
             /\ all_data' = AppendChunk(chunk)
             /\ calls' = Log(calls, <<[start_dt |-> start_dt,
                                      end_dt |-> end_dt,
                                      raised |-> FALSE, chunk |-> chunk]>>)
             /\ current_start' = current_start + args.chunk_size_days
             /\ pc' = "loop"
    /\ UNCHANGED <<args, end_date, data, pitch_grouped, player_grouped,
                   pitcher_name>>

\* lines 22-32, the body of the loop when the provider call raises
FetchFails ==
    /\ pc = "chunk"
    /\ ~ChunkEndOverflows
    /\ OnException(strftime(current_start), strftime(current_end))
    /\ UNCHANGED <<args, end_date, data, pitch_grouped, player_grouped,
                   pitcher_name>>

\* line 22 raises OverflowError: it is outside the try, the call ends.
\* (Line 32 adds the same current_start + chunk_size, so it cannot raise
\* once line 22 has not.)
FetchOverflow ==
    /\ pc = "chunk"
    /\ ChunkEndOverflows
    /\ pc' = "raised"
    /\ UNCHANGED <<args, current_start, end_date, all_data, calls, ui, data,
                   pitch_grouped, player_grouped, pitcher_name>>

\* lines 21 and 35
FetchReturn ==
    /\ pc = "loop"
    /\ ~(current_start <= end_date)
    /\ data' = concat(all_data)
    /\ pc' = "returned"
    /\ UNCHANGED <<args, current_start, end_date, all_data, calls, ui,
                   pitch_grouped, player_grouped, pitcher_name>>

---------------------------------------------------------------------------
(* fetch_season_data called on its own *)

StartDates == { <<2024, 3, 20>>, <<2024, 2, 27>>, <<2023, 12, 29>>,
                <<9999, 12, 27>> }

ChunkSizes == (0..MaxChunk) \cup {MAXORDINAL}

Spans(s) == { j \in -1..MaxSpan : DateOk(strptime(s) + j) }

CallArgs ==
    UNION { { [start_date |-> s, end_date |-> strftime(strptime(s) + k),
               chunk_size_days |-> c] : k \in Spans(s), c \in ChunkSizes }
            : s \in StartDates }

FetchInit ==
    /\ pc = "call"
    /\ args \in CallArgs
    /\ current_start = None
    /\ end_date = None
    /\ all_data = <<>>
    /\ calls = <<>>
    /\ ui = <<>>
    /\ data = None
    /\ pitch_grouped = None
    /\ player_grouped = None
    /\ pitcher_name = None

FetchNext ==
    \/ FetchEnter
    \/ FetchTest
    \/ FetchChunk(CallKinds, MaxCallRows)
    \/ FetchFails
    \/ FetchOverflow
    \/ FetchReturn

FetchSpec == FetchInit /\ [][FetchNext]_vars

FairFetchSpec == FetchSpec /\ WF_vars(FetchNext)

---------------------------------------------------------------------------
(* Exact numbers *)

Abs(n) == IF n < 0 THEN -n ELSE n

RECURSIVE GCD(_, _)
GCD(a, b) == IF b = 0 THEN a ELSE GCD(b, a % b)

\* the reduced fraction n / d, d # 0
Frac(n, d) ==
    LET g == GCD(Abs(n), Abs(d))
        s == IF d < 0 THEN -1 ELSE 1
    IN  <<s * (n \div g), Abs(d) \div g>>

FracAdd(a, b) == Frac(a[1] * b[2] + b[1] * a[2], a[2] * b[2])
FracSub(a, b) == Frac(a[1] * b[2] - b[1] * a[2], a[2] * b[2])

\* q + s * sqrt(r)
Num(q, s, r) == [q |-> q, s |-> s, r |-> r]
Rational(q) == Num(q, 0, <<0, 1>>)
Zero == Rational(<<0, 1>>)
Sqrt(r) == IF r[1] = 0 THEN Zero ELSE Num(<<0, 1>>, 1, r)

\* a + b and a - b for a rational a
NumAdd(a, b) == Num(FracAdd(a.q, b.q), b.s, b.r)
NumSub(a, b) == Num(FracSub(a.q, b.q), -b.s, b.r)

\* a > 0 for a rational a
Positive(a) == a.q[1] > 0

---------------------------------------------------------------------------
(* The aggregation, lines 109-138 *)

\* line 109: data[[...five columns...]].dropna()
dropna(frame) ==
    LET five(r) == [player_name |-> r.player_name, pitch_name |-> r.pitch_name,
                    release_pos_x |-> r.release_pos_x,
                    release_pos_y |-> r.release_pos_y,
                    release_pos_z |-> r.release_pos_z]
        whole(r) == /\ ~isna(r.player_name)
                    /\ ~isna(r.pitch_name)
                    /\ ~isna(r.release_pos_x)
                    /\ ~isna(r.release_pos_y)
                    /\ ~isna(r.release_pos_z)
        projected == [i \in DOMAIN frame |-> five(frame[i])]
    IN  SelectSeq(projected, whole)

RECURSIVE SumOf(_, _)
SumOf(rows, col) ==
    IF rows = <<>> THEN 0 ELSE Head(rows)[col][1] + SumOf(Tail(rows), col)

RECURSIVE SumSqOf(_, _)
SumSqOf(rows, col) ==
    IF rows = <<>> THEN 0
    ELSE Head(rows)[col][1] * Head(rows)[col][1] + SumSqOf(Tail(rows), col)

\* the 'mean' aggregate of a non-empty group
mean(rows, col) == Val(Rational(Frac(SumOf(rows, col), Len(rows))))

\* std as the population standard deviation (ddof = 0)
std_population(rows, col) ==
    LET n == Len(rows)
        s == SumOf(rows, col)
    IN  Val(Sqrt(Frac(n * SumSqOf(rows, col) - s * s, n * n)))

\* the 'std' aggregate (sample standard deviation, ddof = 1): NaN for a
\* group of one row
std(rows, col) ==
    LET n == Len(rows)
        s == SumOf(rows, col)
    IN  IF n < 2 THEN NaN
        ELSE Val(Sqrt(Frac(n * SumSqOf(rows, col) - s * s, n * (n - 1))))

\* the names in the order groupby sorts them
PlayerOrder == <<"A", "B">>
PitchOrder == <<"Curveball", "Eephus", "Slider">>

\* every (player_name, pitch_name) key, sorted
SortedPairs ==
    [k \in 1..(Len(PlayerOrder) * Len(PitchOrder)) |->
        <<PlayerOrder[((k - 1) \div Len(PitchOrder)) + 1],
          PitchOrder[((k - 1) % Len(PitchOrder)) + 1]>>]

\* lines 123 and 138: a missing cell becomes 0
fillna(cell) == IF isna(cell) THEN Val(Zero) ELSE cell

\* lines 112-123: groupby(['player_name', 'pitch_name']).agg(...), the
\* columns renamed, fillna(0)
PitchGrouped(pitch_data) ==
    LET group(key) ==
            LET in(r) == r.player_name = Val(key[1]) /\ r.pitch_name = Val(key[2])
            IN  SelectSeq(pitch_data, in)
        present(key) == group(key) # <<>>
        keys == SelectSeq(SortedPairs, present)
        row(key) ==
            LET g == group(key)
            IN  [player_name |-> Val(key[1]),
                 pitch_name |-> Val(key[2]),
                 release_pos_x_mean |-> fillna(mean(g, "release_pos_x")),
                 release_pos_x_std  |-> fillna(std(g, "release_pos_x")),
                 release_pos_y_mean |-> fillna(mean(g, "release_pos_y")),
                 release_pos_y_std  |-> fillna(std(g, "release_pos_y")),
                 release_pos_z_mean |-> fillna(mean(g, "release_pos_z")),
                 release_pos_z_std  |-> fillna(std(g, "release_pos_z"))]
    IN  [i \in DOMAIN keys |-> row(keys[i])]

\* lines 126-138: groupby('player_name').agg(...), the columns renamed,
\* fillna(0)
PlayerGrouped(pitch_data) ==
    LET group(key) ==
            LET in(r) == r.player_name = Val(key)
            IN  SelectSeq(pitch_data, in)
        present(key) == group(key) # <<>>
        keys == SelectSeq(PlayerOrder, present)
        row(key) ==
            LET g == group(key)
            IN  [player_name |-> Val(key),
                 release_pos_x_mean_all |-> fillna(mean(g, "release_pos_x")),
                 release_pos_x_std_all  |-> fillna(std(g, "release_pos_x")),
                 release_pos_y_mean_all |-> fillna(mean(g, "release_pos_y")),
                 release_pos_y_std_all  |-> fillna(std(g, "release_pos_y")),
                 release_pos_z_mean_all |-> fillna(mean(g, "release_pos_z")),
                 release_pos_z_std_all  |-> fillna(std(g, "release_pos_z"))]
    IN  [i \in DOMAIN keys |-> row(keys[i])]

---------------------------------------------------------------------------
(* plot_release_points, lines 37-93 *)

\* lines 141-153
color_map ==
    [n \in {"4-Seam Fastball", "2-Seam Fastball", "Sinker", "Cutter",
            "Slider", "Sweeper", "Curveball", "Knuckle Curve", "Changeup",
            "Splitter", "Knuckleball"} |->
        CASE n \in {"4-Seam Fastball", "2-Seam Fastball"} -> "red"
          [] n = "Sinker" -> "purple"
          [] n = "Cutter" -> "orange"
          [] n \in {"Slider", "Sweeper"} -> "yellow"
          [] n \in {"Curveball", "Knuckle Curve"} -> "blue"
          [] n = "Changeup" -> "green"
          [] n = "Splitter" -> "pink"
          [] n = "Knuckleball" -> "black"]

\* dict.get(key, default)
get(map, key, default) == IF key \in DOMAIN map THEN map[key] ELSE default

\* go.Scatter3d(...)
Scatter3d(x, y, z, mode, size, color, name, showlegend) ==
    [x |-> x, y |-> y, z |-> z, mode |-> mode, size |-> size,
     color |-> color, name |-> name, showlegend |-> showlegend]

\* line 51
ColorOf(colors, pitch_name) == get(colors, pitch_name, "gray")

\* lines 54-61: the marker of one pitch type
PitchMarker(row, colors) ==
    Scatter3d(<<row.release_pos_x_mean[1]>>,
              <<row.release_pos_y_mean[1]>>,
              <<row.release_pos_z_mean[1]>>,
              "markers", 5, ColorOf(colors, row.pitch_name[1]),
              row.pitch_name[1], TRUE)

\* ErrorBar drawn in the default color instead of the pitch type's
ErrorBarGray(row, colors) ==
    Scatter3d(<<NumSub(row.release_pos_x_mean[1], row.release_pos_x_std[1]),
                NumAdd(row.release_pos_x_mean[1], row.release_pos_x_std[1])>>,
              <<row.release_pos_y_mean[1], row.release_pos_y_mean[1]>>,
              <<row.release_pos_z_mean[1], row.release_pos_z_mean[1]>>,
              "lines", 2, "gray", "", FALSE)

\* lines 64-71: the error bar of one pitch type
ErrorBar(row, colors) ==
    Scatter3d(<<NumSub(row.release_pos_x_mean[1], row.release_pos_x_std[1]),
                NumAdd(row.release_pos_x_mean[1], row.release_pos_x_std[1])>>,
              <<row.release_pos_y_mean[1], row.release_pos_y_mean[1]>>,
              <<row.release_pos_z_mean[1], row.release_pos_z_mean[1]>>,
              "lines", 2, ColorOf(colors, row.pitch_name[1]), "", FALSE)

RECURSIVE PitchTraces(_, _)
\* lines 49-71: two traces for every row, in the order of the rows
PitchTraces(rows, colors) ==
    IF rows = <<>> THEN <<>>
    ELSE <<PitchMarker(Head(rows), colors), ErrorBar(Head(rows), colors)>>
         \o PitchTraces(Tail(rows), colors)

\* lines 74-81
OverallMarker(overall) ==
    Scatter3d(<<overall.release_pos_x_mean_all[1]>>,
              <<overall.release_pos_y_mean_all[1]>>,
              <<overall.release_pos_z_mean_all[1]>>,
              "markers", 10, "green", "Overall Mean", TRUE)

\* Handedness decided by the first pitch type's mean instead of the overall
HandednessOfFirstPitch(overall, pitches) ==
    IF Positive(pitches[1].release_pos_x_mean[1])
    THEN "Left-Handed" ELSE "Right-Handed"

\* line 46
Handedness(overall, pitches) ==
    IF Positive(overall.release_pos_x_mean_all[1])
    THEN "Left-Handed" ELSE "Right-Handed"

\* lines 39-91: the figure that line 93 hands to st.plotly_chart
Figure(name, pitches, players, colors) ==
    LET mine(r) == r.player_name = Val(name)
        pitcher_pitch_data == SelectSeq(pitches, mine)
        pitcher_overall_data == SelectSeq(players, mine)[1]
    IN  [traces |-> PitchTraces(pitcher_pitch_data, colors)
                    \o <<OverallMarker(pitcher_overall_data)>>,
         title |-> <<"Release Points for", name,
                     Handedness(pitcher_overall_data, pitcher_pitch_data)>>,
         scene |-> [xaxis_title |-> "Release Pos X",
                    yaxis_title |-> "Release Pos Y",
                    zaxis_title |-> "Release Pos Z"]]

---------------------------------------------------------------------------
(* The script, lines 96-160 *)

\* line 102
ChunkSizeDays == 7

SeasonArgs ==
    [start_date |-> <<2024, 3, 20>>,
     end_date |-> strftime(strptime(<<2024, 3, 20>>) + SeasonDays - 1),
     chunk_size_days |-> ChunkSizeDays]

\* lines 96-102: the title, the introduction, the call of the fetch
ScriptStart ==
    /\ pc = "main"
    /\ ui' = <<Element("title", "Pitcher Release Points Analysis"),
               Element("write", <<"Analyze">>)>>
    /\ args' = SeasonArgs
    /\ pc' = "call"
    /\ UNCHANGED <<current_start, end_date, all_data, calls, data,
                   pitch_grouped, player_grouped, pitcher_name>>

\* the guard of line 104 as `data is None`, which a DataFrame never is
emptyIsNone(frame) == FALSE

\* line 104: DataFrame.empty
empty(frame) == frame = <<>>

\* lines 104-106
NoData ==
    /\ pc = "returned"
    /\ empty(data)
    /\ ui' = Append(ui, Element("warning", <<"No data available.">>))
    /\ pc' = "stopped"
    /\ UNCHANGED <<args, current_start, end_date, all_data, calls, data,
                   pitch_grouped, player_grouped, pitcher_name>>

\* lines 104, 109-138
Aggregate ==
    /\ pc = "returned"
    /\ ~empty(data)
    /\ pitch_grouped' = PitchGrouped(dropna(data))
    /\ player_grouped' = PlayerGrouped(dropna(data))
    /\ pc' = "select"
    /\ UNCHANGED <<args, current_start, end_date, all_data, calls, ui, data,
                   pitcher_name>>

RECURSIVE unique(_)
\* Series.unique(): the values in order of first appearance
unique(values) ==
    IF values = <<>> THEN <<>>
    ELSE LET rest == unique(Front(values))
             last == values[Len(values)]
         IN  IF \E i \in DOMAIN rest : rest[i] = last
             THEN rest ELSE Append(rest, last)

\* line 156: the options of the dropdown
Options(players) == unique([i \in DOMAIN players |-> players[i].player_name[1]])

\* line 156: st.selectbox returns the option the user has selected (the
\* first one until the user selects), None when there is no option
Select ==
    /\ pc = "select"
    /\ LET options == Options(player_grouped)
       IN  /\ ui' = Append(ui, Element("selectbox", options))
           /\ IF options = <<>>
              THEN pitcher_name' = NaN
              ELSE \E i \in DOMAIN options : pitcher_name' = Val(options[i])
    /\ pc' = "show"
    /\ UNCHANGED <<args, current_start, end_date, all_data, calls, data,
                   pitch_grouped, player_grouped>>

\* line 159: the truth value of None and of a str
truthy(v) == ~isna(v) /\ v[1] # ""

\* Show plotting the first option whatever the selection is
ShowFirstOption ==
    /\ pc = "show"
    /\ truthy(pitcher_name)
    /\ ui' = Append(ui, Element("plotly_chart",
                Figure(Options(player_grouped)[1], pitch_grouped,
                       player_grouped, color_map)))
    /\ pc' = "done"
    /\ UNCHANGED <<args, current_start, end_date, all_data, calls, data,
                   pitch_grouped, player_grouped, pitcher_name>>

\* lines 159-160 and 93
Show ==
    /\ pc = "show"
    /\ truthy(pitcher_name)
    /\ ui' = Append(ui, Element("plotly_chart",
                Figure(pitcher_name[1], pitch_grouped, player_grouped,
                       color_map)))
    /\ pc' = "done"
    /\ UNCHANGED <<args, current_start, end_date, all_data, calls, data,
                   pitch_grouped, player_grouped, pitcher_name>>

\* line 159, nothing selected: the script ends without a plot
NoShow ==
    /\ pc = "show"
    /\ ~truthy(pitcher_name)
    /\ pc' = "done"
    /\ UNCHANGED <<args, current_start, end_date, all_data, calls, ui, data,
                   pitch_grouped, player_grouped, pitcher_name>>

Init ==
    /\ pc = "main"
    /\ args = None
    /\ current_start = None
    /\ end_date = None
    /\ all_data = <<>>
    /\ calls = <<>>
    /\ ui = <<>>
    /\ data = None
    /\ pitch_grouped = None
    /\ player_grouped = None
    /\ pitcher_name = None

\* FetchOverflow is left out: with the arguments of line 102 no date of the
\* loop is near datetime.max
Next ==
    \/ ScriptStart
    \/ FetchEnter
    \/ FetchTest
    \/ FetchChunk(SeasonKinds, MaxRows)
    \/ FetchFails
    \/ FetchReturn
    \/ NoData
    \/ Aggregate
    \/ Select
    \/ Show
    \/ NoShow

Spec == Init /\ [][Next]_vars

---------------------------------------------------------------------------
(* What the calls of one fetch look like *)

Terminated == pc \in {"returned", "raised"}

ReqStart(i) == strptime(calls[i].start_dt)
ReqEnd(i) == strptime(calls[i].end_dt)

FirstDay == strptime(args.start_date)
LastDay == strptime(args.end_date)

\* the chunks requested so far are consecutive, full, and inside the range
PartitionSoFar ==
    /\ calls # <<>> => ReqStart(1) = FirstDay
    /\ \A i \in 1..Len(calls) :
          /\ ReqStart(i) <= ReqEnd(i)
          /\ ReqEnd(i) <= LastDay
    /\ \A i \in 1..(Len(calls) - 1) :
          /\ ReqStart(i + 1) = ReqEnd(i) + 1
          /\ ReqEnd(i) - ReqStart(i) + 1 = args.chunk_size_days

\* C1: for start_date <= end_date and chunk_size_days >= 1 the requested
\* ranges partition [start_date, end_date]: the first starts at start_date,
\* each next one starts the day after the previous one ends, none passes
\* end_date, all but the last span chunk_size_days days, and when the call
\* is over the last one ends at end_date.
C1_RangesPartition ==
    (FirstDay <= LastDay /\ args.chunk_size_days >= 1) =>
        /\ PartitionSoFar
        /\ Terminated => (calls # <<>> /\ ReqEnd(Len(calls)) = LastDay)

\* the same, for the calls that return: what C1 leaves of the partition
\* once the OverflowError of line 22 is set apart
C1_PartitionWhenReturned ==
    (FirstDay <= LastDay /\ args.chunk_size_days >= 1) =>
        /\ PartitionSoFar
        /\ pc = "returned" => (calls # <<>> /\ ReqEnd(Len(calls)) = LastDay)

IsWarning(e) == e.kind = "warning"
IsFailed(c) == c.raised

Warnings == SelectSeq(ui, IsWarning)
FailedCalls == SelectSeq(calls, IsFailed)

RECURSIVE Chunks(_)
\* the chunks the calls gave, in order (a failed call gave none)
Chunks(cs) ==
    IF cs = <<>> THEN <<>> ELSE Head(cs).chunk \o Chunks(Tail(cs))

\* C2: a provider call that raises is caught: it leaves one warning naming
\* the chunk's range, the chunk is not asked for again, the loop goes on
\* with the next chunk, the rows of every chunk fetched before or after
\* are in the result, and the call never ends by raising because of it.
C2_FailureIsSkipped ==
    /\ Len(Warnings) = Len(FailedCalls)
    /\ \A i \in 1..Len(Warnings) :
          Warnings[i].arg = <<"Failed", FailedCalls[i].start_dt,
                              FailedCalls[i].end_dt>>
    /\ \A i \in 1..(Len(calls) - 1) :
          (calls[i].raised /\ args.chunk_size_days >= 1) =>
              ReqStart(i + 1) = ReqEnd(i) + 1
    /\ pc \in {"loop", "chunk", "returned"} =>
          concat(all_data) = Chunks(calls)
    /\ pc = "returned" => data = Chunks(calls)
    /\ pc = "raised" => ChunkEndOverflows
    /\ (calls # <<>> /\ calls[Len(calls)].raised) =>
          \/ pc = "returned" /\ current_start > end_date
          \/ pc = "raised"
          \/ pc \in {"loop", "chunk"} /\ current_start =
                  ReqStart(Len(calls)) + args.chunk_size_days

\* a call that returned with rows fetched before and after a failed chunk
C2_Witness ==
    /\ pc = "returned"
    /\ \E i, j, k \in 1..Len(calls) :
          /\ i < j /\ j < k
          /\ calls[i].chunk # <<>>
          /\ calls[j].raised
          /\ calls[k].chunk # <<>>
          /\ Len(data) = 2

\* the number of calls is ceil(D / chunk_size_days), D the days of the
\* inclusive range; none, and an empty table, when the range is empty
CallCountIsCeiling ==
    LET D == LastDay - FirstDay + 1
        n == Len(calls)
    IN  IF FirstDay > LastDay
        THEN n = 0 /\ data = <<>>
        ELSE (n - 1) * args.chunk_size_days < D
             /\ D <= n * args.chunk_size_days

\* C7: the loop ends for every start_date, end_date and chunk_size_days,
\* having issued exactly ceil(D / chunk_size_days) provider requests, and
\* none (with an empty table returned) when start_date is after end_date.
C7_LoopTerminates ==
    <>(Terminated /\ (pc = "returned" => CallCountIsCeiling))

\* what holds of the loop: a call that returns has issued that many calls
C7_CountWhenReturned == pc = "returned" => CallCountIsCeiling

---------------------------------------------------------------------------
(* What the script has done *)

Aggregated == pc \in {"select", "show", "done"}

IsPlot(e) == e.kind = "plotly_chart"
IsSelectbox(e) == e.kind = "selectbox"

Plots == SelectSeq(ui, IsPlot)
Selectboxes == SelectSeq(ui, IsSelectbox)

\* the records of data that have the five columns present
CompleteIdx ==
    { i \in DOMAIN data :
        /\ data[i].player_name # NaN
        /\ data[i].pitch_name # NaN
        /\ data[i].release_pos_x # NaN
        /\ data[i].release_pos_y # NaN
        /\ data[i].release_pos_z # NaN }

PlayerIdx(p) == { i \in CompleteIdx : data[i].player_name = Val(p) }
GroupIdx(p, t) == { i \in PlayerIdx(p) : data[i].pitch_name = Val(t) }

RECURSIVE SumIdx(_, _)
\* the sum of column col over the records I
SumIdx(I, col) ==
    IF I = {} THEN 0
    ELSE LET i == CHOOSE j \in I : TRUE
         IN  data[i][col][1] + SumIdx(I \ {i}, col)

RECURSIVE SumSqIdx(_, _)
\* the sum of the squares of column col over the records I
SumSqIdx(I, col) ==
    IF I = {} THEN 0
    ELSE LET i == CHOOSE j \in I : TRUE
         IN  data[i][col][1] * data[i][col][1] + SumSqIdx(I \ {i}, col)

\* cell holds the mean of col over the records I
MeanIs(cell, I, col) ==
    /\ cell # NaN
    /\ cell[1].s = 0
    /\ cell[1].q[2] > 0
    /\ cell[1].q[1] * Cardinality(I) = SumIdx(I, col) * cell[1].q[2]

\* cell holds the sample standard deviation of col over the records I,
\* and 0 when I is a single record
StdIs(cell, I, col) ==
    LET n == Cardinality(I)
        V == n * SumSqIdx(I, col) - SumIdx(I, col) * SumIdx(I, col)
    IN  /\ cell # NaN
        /\ cell[1].q = <<0, 1>>
        /\ IF n = 1 \/ V = 0
           THEN cell[1] = Zero
           ELSE /\ cell[1].s = 1
                /\ cell[1].r[2] > 0
                /\ cell[1].r[1] * (n * (n - 1)) = V * cell[1].r[2]

\* C3: the statistics are over the complete records only: pitch_grouped
\* has exactly one row for each (player_name, pitch_name) of a complete
\* record and player_grouped one row for each player_name of a complete
\* record, the mean and the standard deviation of a row are those of the
\* complete records of its group, and the standard deviation of a group
\* of one record is 0.
C3_StatisticsOfCompleteRecords ==
    Aggregated =>
        /\ \A j \in DOMAIN pitch_grouped :
              LET r == pitch_grouped[j]
                  I == GroupIdx(r.player_name[1], r.pitch_name[1])
              IN  /\ I # {}
                  /\ MeanIs(r.release_pos_x_mean, I, "release_pos_x")
                  /\ MeanIs(r.release_pos_y_mean, I, "release_pos_y")
                  /\ MeanIs(r.release_pos_z_mean, I, "release_pos_z")
                  /\ StdIs(r.release_pos_x_std, I, "release_pos_x")
                  /\ StdIs(r.release_pos_y_std, I, "release_pos_y")
                  /\ StdIs(r.release_pos_z_std, I, "release_pos_z")
        /\ \A i \in CompleteIdx :
              Cardinality({ j \in DOMAIN pitch_grouped :
                              /\ pitch_grouped[j].player_name = data[i].player_name
                              /\ pitch_grouped[j].pitch_name = data[i].pitch_name })
                = 1
        /\ \A j \in DOMAIN player_grouped :
              LET r == player_grouped[j]
                  I == PlayerIdx(r.player_name[1])
              IN  /\ I # {}
                  /\ MeanIs(r.release_pos_x_mean_all, I, "release_pos_x")
                  /\ MeanIs(r.release_pos_y_mean_all, I, "release_pos_y")
                  /\ MeanIs(r.release_pos_z_mean_all, I, "release_pos_z")
                  /\ StdIs(r.release_pos_x_std_all, I, "release_pos_x")
                  /\ StdIs(r.release_pos_y_std_all, I, "release_pos_y")
                  /\ StdIs(r.release_pos_z_std_all, I, "release_pos_z")
        /\ \A i \in CompleteIdx :
              Cardinality({ j \in DOMAIN player_grouped :
                              player_grouped[j].player_name = data[i].player_name })
                = 1

\* an aggregation that dropped an incomplete record, with a pitch-type
\* group of a single record (standard deviation 0) of a player who has two
\* complete records that differ in x
C3_Witness ==
    /\ Aggregated
    /\ CompleteIdx # DOMAIN data
    /\ \E j \in DOMAIN pitch_grouped, k \in DOMAIN player_grouped :
          /\ Cardinality(GroupIdx(pitch_grouped[j].player_name[1],
                                  pitch_grouped[j].pitch_name[1])) = 1
          /\ pitch_grouped[j].release_pos_x_std = Val(Zero)
          /\ player_grouped[k].player_name = pitch_grouped[j].player_name
          /\ Cardinality(PlayerIdx(player_grouped[k].player_name[1])) = 2
          /\ player_grouped[k].release_pos_x_std_all # Val(Zero)

\* the rows of the selected pitcher
SelectedPitchRows ==
    LET mine(r) == r.player_name = pitcher_name
    IN  SelectSeq(pitch_grouped, mine)

SelectedOverall ==
    LET mine(r) == r.player_name = pitcher_name
    IN  SelectSeq(player_grouped, mine)[1]

\* fig has a marker at (mx, my, mz)
MeanShown(fig, mx, my, mz) ==
    \E i \in DOMAIN fig.traces :
        /\ fig.traces[i].mode = "markers"
        /\ fig.traces[i].x = <<mx[1]>>
        /\ fig.traces[i].y = <<my[1]>>
        /\ fig.traces[i].z = <<mz[1]>>

\* fig has a bar from m - s to m + s along an axis
StdShown(fig, axis, m, s) ==
    \E i \in DOMAIN fig.traces :
        /\ fig.traces[i].mode = "lines"
        /\ fig.traces[i][axis] = <<NumSub(m[1], s[1]), NumAdd(m[1], s[1])>>

\* C4: the figure of the selected pitcher shows every computed statistic:
\* the mean and the standard deviation of release_pos_x, release_pos_y
\* and release_pos_z, per pitch type and per player.
C4_AllStatisticsShown ==
    \A p \in DOMAIN Plots :
        LET fig == Plots[p].arg
            o == SelectedOverall
        IN  /\ \A j \in DOMAIN SelectedPitchRows :
                  LET r == SelectedPitchRows[j]
                  IN  /\ MeanShown(fig, r.release_pos_x_mean,
                                   r.release_pos_y_mean, r.release_pos_z_mean)
                      /\ StdShown(fig, "x", r.release_pos_x_mean, r.release_pos_x_std)
                      /\ StdShown(fig, "y", r.release_pos_y_mean, r.release_pos_y_std)
                      /\ StdShown(fig, "z", r.release_pos_z_mean, r.release_pos_z_std)
            /\ MeanShown(fig, o.release_pos_x_mean_all,
                         o.release_pos_y_mean_all, o.release_pos_z_mean_all)
            /\ StdShown(fig, "x", o.release_pos_x_mean_all, o.release_pos_x_std_all)
            /\ StdShown(fig, "y", o.release_pos_y_mean_all, o.release_pos_y_std_all)
            /\ StdShown(fig, "z", o.release_pos_z_mean_all, o.release_pos_z_std_all)

\* what the figure does show: every mean, and per pitch type the standard
\* deviation of release_pos_x
C4_MeansAndXStdShown ==
    \A p \in DOMAIN Plots :
        LET fig == Plots[p].arg
            o == SelectedOverall
        IN  /\ \A j \in DOMAIN SelectedPitchRows :
                  LET r == SelectedPitchRows[j]
                  IN  /\ MeanShown(fig, r.release_pos_x_mean,
                                   r.release_pos_y_mean, r.release_pos_z_mean)
                      /\ StdShown(fig, "x", r.release_pos_x_mean, r.release_pos_x_std)
            /\ MeanShown(fig, o.release_pos_x_mean_all,
                         o.release_pos_y_mean_all, o.release_pos_z_mean_all)

\* the player names that have a complete record
CompletePlayers == { data[i].player_name[1] : i \in CompleteIdx }

\* options lists exactly those names, each once
OptionsAreThePlayers(options) ==
    /\ { options[i] : i \in DOMAIN options } = CompletePlayers
    /\ Len(options) = Cardinality(CompletePlayers)

\* C5: the dropdown lists exactly the distinct player_name values that
\* have a complete record, each once, and every run with non-empty data
\* renders exactly one plot, that of the selected pitcher.
C5_OnePlotEveryRun ==
    /\ \A s \in DOMAIN Selectboxes : OptionsAreThePlayers(Selectboxes[s].arg)
    /\ pc = "done" =>
          /\ Len(Plots) = 1
          /\ Plots[1].arg.title[2] = pitcher_name[1]

\* C5 as amended: the dropdown lists exactly the distinct player_name
\* values that have a complete record, each once; a run whose data has a
\* complete record renders exactly one plot, that of the selected pitcher,
\* who is one of the options; a run whose data has no complete record
\* renders no plot.
C5_OnePlotWhenAPlayer ==
    /\ \A s \in DOMAIN Selectboxes : OptionsAreThePlayers(Selectboxes[s].arg)
    /\ Len(Selectboxes) <= 1
    /\ pc # "done" => Len(Plots) = 0
    /\ pc = "done" =>
          IF CompleteIdx # {}
          THEN /\ Len(Plots) = 1
               /\ pitcher_name # NaN
               /\ pitcher_name[1] \in CompletePlayers
               /\ Plots[1].arg.title[2] = pitcher_name[1]
               /\ Plots[1].arg.traces[Len(Plots[1].arg.traces)].x =
                     <<SelectedOverall.release_pos_x_mean_all[1]>>
          ELSE Len(Plots) = 0

\* a finished run with two options whose plot is the second pitcher's
C5_Witness ==
    /\ pc = "done"
    /\ Len(Selectboxes) = 1
    /\ Selectboxes[1].arg = <<"A", "B">>
    /\ pitcher_name = Val("B")
    /\ Len(Plots) = 1

NothingFetched == \A i \in DOMAIN calls : calls[i].raised \/ calls[i].chunk = <<>>

\* C6: the script fetches, then aggregates, then shows the dropdown, then
\* renders; when the fetch gave no record (every chunk empty or failed) it
\* warns "No data available." and stops, with no aggregation, no dropdown
\* and no plot.
C6_OrderAndEmptyStop ==
    /\ pc \in {"returned", "stopped", "select", "show", "done"} =>
          (data = <<>> <=> NothingFetched)
    /\ Aggregated => data # <<>>
    /\ pc = "stopped" =>
          /\ data = <<>>
          /\ ui[Len(ui)] = Element("warning", <<"No data available.">>)
          /\ Len(Selectboxes) = 0
          /\ Len(Plots) = 0
          /\ pitch_grouped = None
          /\ player_grouped = None
          /\ pitcher_name = None
    /\ pc \in {"main", "call", "loop", "chunk", "returned"} =>
          /\ Len(Selectboxes) = 0
          /\ Len(Plots) = 0
          /\ pitch_grouped = None
          /\ player_grouped = None
    /\ pc = "select" => Len(Selectboxes) = 0 /\ Len(Plots) = 0
    /\ pc = "show" => IsSelectbox(ui[Len(ui)]) /\ Len(Plots) = 0
    /\ pc = "done" =>
          /\ Len(Selectboxes) = 1
          /\ \A i \in DOMAIN ui :
                /\ IsPlot(ui[i]) => i = Len(ui) /\ IsSelectbox(ui[i - 1])
                /\ IsSelectbox(ui[i]) => \A j \in 1..(i - 1) : ~IsPlot(ui[j])

\* a run that stopped after one chunk failed and the other came back empty
C6_Witness ==
    /\ pc = "stopped"
    /\ \E i, j \in DOMAIN calls :
          /\ calls[i].raised
          /\ ~calls[j].raised /\ calls[j].chunk = <<>>

ExpectedColor(pitch_name) ==
    IF pitch_name \in DOMAIN color_map THEN color_map[pitch_name] ELSE "gray"

\* C8: for a pitcher with k rows in pitch_grouped the figure has 2k+1
\* traces: per pitch type a marker at the means followed by a line from
\* x mean - x std to x mean + x std at the same y mean and z mean, both in
\* the color of the pitch name (gray when color_map has none), and last a
\* green 'Overall Mean' marker at the overall means.
C8_FigureTraces ==
    \A p \in DOMAIN Plots :
        LET fig == Plots[p].arg
            rows == SelectedPitchRows
            k == Len(rows)
            o == SelectedOverall
        IN  /\ Len(fig.traces) = 2 * k + 1
            /\ \A i \in 1..k :
                  LET r == rows[i]
                      m == fig.traces[2 * i - 1]
                      l == fig.traces[2 * i]
                  IN  /\ m.mode = "markers"
                      /\ m.x = <<r.release_pos_x_mean[1]>>
                      /\ m.y = <<r.release_pos_y_mean[1]>>
                      /\ m.z = <<r.release_pos_z_mean[1]>>
                      /\ m.color = ExpectedColor(r.pitch_name[1])
                      /\ l.mode = "lines"
                      /\ l.x = <<NumSub(r.release_pos_x_mean[1],
                                        r.release_pos_x_std[1]),
                                 NumAdd(r.release_pos_x_mean[1],
                                        r.release_pos_x_std[1])>>
                      /\ l.y = <<r.release_pos_y_mean[1], r.release_pos_y_mean[1]>>
                      /\ l.z = <<r.release_pos_z_mean[1], r.release_pos_z_mean[1]>>
                      /\ l.color = m.color
            /\ LET last == fig.traces[2 * k + 1]
               IN  /\ last.mode = "markers"
                   /\ last.color = "green"
                   /\ last.name = "Overall Mean"
                   /\ last.x = <<o.release_pos_x_mean_all[1]>>
                   /\ last.y = <<o.release_pos_y_mean_all[1]>>
                   /\ last.z = <<o.release_pos_z_mean_all[1]>>

\* a figure of two pitch types, one in color_map and one not, one of them
\* with an error bar of non-zero length
C8_Witness ==
    /\ Len(Plots) = 1
    /\ Len(SelectedPitchRows) = 2
    /\ \E i, j \in DOMAIN SelectedPitchRows :
          /\ SelectedPitchRows[i].pitch_name[1] \in DOMAIN color_map
          /\ SelectedPitchRows[j].pitch_name[1] \notin DOMAIN color_map
          /\ SelectedPitchRows[i].release_pos_x_std # Val(Zero)

\* C9: the title says 'Left-Handed' exactly when the pitcher's overall
\* mean release_pos_x is greater than 0, and 'Right-Handed' otherwise (an
\* overall mean of 0 included), whatever the means per pitch type are.
C9_Handedness ==
    \A p \in DOMAIN Plots :
        Plots[p].arg.title[3] =
            IF SumIdx(PlayerIdx(pitcher_name[1]), "release_pos_x") > 0
            THEN "Left-Handed" ELSE "Right-Handed"

\* a plot titled 'Right-Handed' of a pitcher whose overall mean is 0 and
\* who has a pitch type with a mean greater than 0
C9_Witness ==
    /\ Len(Plots) = 1
    /\ Plots[1].arg.title[3] = "Right-Handed"
    /\ SumIdx(PlayerIdx(pitcher_name[1]), "release_pos_x") = 0
    /\ \E j \in DOMAIN SelectedPitchRows :
          Positive(SelectedPitchRows[j].release_pos_x_mean[1])

=============================================================================
